---- MODULE Spec2Model ----
(***************************************************************************)
(* MAX30102 pulse-oximeter kernel driver: the sample mailbox shared by     *)
(* the interrupt work handler and the file operations (read, ioctl,        *)
(* debugfs dump), the wait queue the blocking read sleeps on, and the      *)
(* configuration commands of the ioctl surface.                            *)
(*                                                                         *)
(* Spec     : the mailbox and its contexts, interleaved statement by       *)
(*            statement at every access to shared state.                   *)
(* SpecCmd  : the configuration commands of max30102_ioctl, one action per *)
(*            command (the handler runs under data->lock from entry to     *)
(*            exit).                                                       *)
(***************************************************************************)
EXTENDS Integers, Sequences, FiniteSets, TLC

(***************************************************************************)
(* Bounds of the model.                                                    *)
(***************************************************************************)
\* samples the device FIFO stream delivers in one run
MaxSamples == 2
\* configuration commands issued in one run of SpecCmd
MaxCmds == 2

(***************************************************************************)
(* Program constants.                                                      *)
(***************************************************************************)
\* uint32_t red_data[32], ir_data[32]
FIFO_CAP == 32
\* max30102_read_reg / max30102_write_reg: if (len > 32) return -EINVAL
I2C_MAX_LEN == 32
\* MAX30102_INT_FIFO_FULL = 7 (bit number in interrupt status 1)
MAX30102_INT_FIFO_FULL == 7
MAX30102_REG_FIFO_CONFIG == 8
MAX30102_REG_MODE_CONFIG == 9
MAX30102_REG_SPO2_CONFIG == 10
MAX30102_REG_MULTI_LED_MODE_1 == 17
MAX30102_REG_MULTI_LED_MODE_2 == 18

\* the contexts: user processes holding the device open, and the kworker
Procs == {"p1", "p2"}
Worker == "kworker"
NoOwner == "none"
\* nodes of the wait-queue list: the head in struct max30102_data, and one
\* wait_queue_entry on the stack of each blocked reader
WqHead == "H"
Null == "NULL"
Nodes == Procs \cup {WqHead}

Idx == 0 .. (FIFO_CAP - 1)
Zeros == [i \in Idx |-> 0]

(***************************************************************************)
(* C integer arithmetic.                                                   *)
(***************************************************************************)
RECURSIVE Pow2(_)
Pow2(n) == IF n = 0 THEN 1 ELSE 2 * Pow2(n - 1)

Shl(x, n) == x * Pow2(n)
Shr(x, n) == x \div Pow2(n)

RECURSIVE BitOr(_, _)
BitOr(a, b) ==
    IF a = 0 THEN b
    ELSE IF b = 0 THEN a
    ELSE (IF (a % 2 = 1) \/ (b % 2 = 1) THEN 1 ELSE 0)
         + 2 * BitOr(a \div 2, b \div 2)

RECURSIVE BitAnd(_, _)
BitAnd(a, b) ==
    IF a = 0 \/ b = 0 THEN 0
    ELSE (IF (a % 2 = 1) /\ (b % 2 = 1) THEN 1 ELSE 0)
         + 2 * BitAnd(a \div 2, b \div 2)

\* C's % truncates toward zero
CRem(a, n) == IF a >= 0 THEN a % n ELSE 0 - ((0 - a) % n)
\* conversion of an int to uint8_t
U8(x) == x % 256

\* the value i2c_transfer returns: a negative errno, or the messages done
XferVals == {-121, 0, 1, 2}
Errno(x) == IF x = -121 THEN "EREMOTEIO" ELSE "EIO"

\* max30102_read_reg: len > 32 is refused before the transfer; the transfer
\* must complete both messages
ReadRegRet(len, x) ==
    IF len > I2C_MAX_LEN THEN "EINVAL"
    ELSE IF x # 2 THEN (IF x < 0 THEN Errno(x) ELSE "EIO")
    ELSE "OK"

\* a write that accepts any non-negative transfer count
WriteRegRetMut(len, x) ==
    IF len > I2C_MAX_LEN THEN "EINVAL"
    ELSE IF x < 0 THEN Errno(x)
    ELSE "OK"

\* max30102_write_reg: one message
WriteRegRet(len, x) ==
    IF len > I2C_MAX_LEN THEN "EINVAL"
    ELSE IF x # 1 THEN (IF x < 0 THEN Errno(x) ELSE "EIO")
    ELSE "OK"

(***************************************************************************)
(* The device FIFO: a stream of numbered samples; sample n is the 6-byte   *)
(* group FifoGroup(n), so that every sample of a run is distinguishable.   *)
(***************************************************************************)
FifoGroup(n) == <<n, n, 64, n, n, 128>>

RECURSIVE FifoBurst(_, _)
FifoBurst(first, count) ==
    IF count = 0 THEN <<>>
    ELSE FifoGroup(first) \o FifoBurst(first + 1, count - 1)

\* a decode that drops the two low bits held by the third byte
DecodeRedMut(buf, i) ==
    BitOr(Shl(buf[i * 6 + 1], 10), Shl(buf[i * 6 + 2], 2))
\* work handler: one Red and one IR sample from the i-th 6-byte group
\* (three bytes below 256 give a value below 2^18: the u32 store keeps it)
DecodeRed(buf, i) ==
    BitOr(BitOr(Shl(buf[i * 6 + 1], 10), Shl(buf[i * 6 + 2], 2)),
          Shr(buf[i * 6 + 3], 6))
DecodeIr(buf, i) ==
    BitOr(BitOr(Shl(buf[i * 6 + 4], 10), Shl(buf[i * 6 + 5], 2)),
          Shr(buf[i * 6 + 6], 6))

\* work handler: len = (write_ptr - read_ptr + 32) % 32, stored in a uint8_t
FifoCount(wp, rp) == U8(CRem(wp - rp + 32, 32))

\* the pointer register values the runs draw from
PtrVals == {0, 1, 2, 6, 31}
\* interrupt status 1 values the runs draw from (A_FULL = 0x80, PPG_RDY = 0x40)
StatusVals == {0, 64, 128}

StatusFifoFull(status1) == BitAnd(status1, Shl(1, MAX30102_INT_FIFO_FULL)) # 0

(***************************************************************************)
(* State.                                                                  *)
(***************************************************************************)
VARIABLES
    \* struct max30102_data
    lock,          \* owner of data->lock (a kernel mutex, not recursive)
    red_data,      \* uint32_t red_data[32]
    ir_data,       \* uint32_t ir_data[32]
    data_len,      \* uint8_t data_len
    fifo_full,     \* bool fifo_full
    wq_next,       \* wait_data_ready: the list's next pointers
    wq_prev,       \* wait_data_ready: the list's prev pointers
    work_pending,  \* data->work is queued (schedule_work)
    \* the kworker running max30102_work_handler
    wpc,           \* its position
    wlen,          \* local len
    wi,            \* loop index i
    wbuf,          \* local fifo_data buffer
    \* the device
    fifo_pos,      \* samples the FIFO has handed out so far
    regs,          \* the configuration registers
    \* the user contexts
    pc,            \* position of each process inside its system call
    op,            \* the call in progress: kind, O_NONBLOCK
    out,           \* the call's local struct max30102_fifo_data
    ret,           \* the call's return value
    wret,          \* value of wait_event_interruptible
    tstate,        \* task state: "RUNNING" or "INTERRUPTIBLE"
    sig,           \* a signal is pending for the task
    nbus,          \* bus transactions the call has issued
    \* which of the repository's versions of max30102_read and
    \* max30102_read_fifo the module was built from
    read_ver,
    rf_ver,
    \* the ioctl configuration command last executed
    cmd,
    ncmd,
    \* history
    pubs,          \* the Sample Sets published so far, in order
    delivered,     \* Len(pubs) when a consume last cleared the full flag
    skipped,       \* that consume returned a set that had overwritten another
    \* a unit of the driver run on its own: the function called, its
    \* inputs, its position and its results
    call

mailbox == <<red_data, ir_data, data_len, fifo_full>>
wqvars == <<wq_next, wq_prev>>
workervars == <<work_pending, wpc, wlen, wi, wbuf, fifo_pos>>
procvars == <<pc, op, out, ret, wret, tstate, sig, nbus>>
buildvars == <<read_ver, rf_ver>>
unitvars == <<call>>
cmdvars == <<regs, cmd, ncmd>>
histvars == <<pubs, delivered, skipped>>
vars == <<lock, mailbox, wqvars, workervars, procvars, buildvars, unitvars, cmdvars,
          histvars>>

NoCall == [kind |-> "none"]
NoOp == [kind |-> "none", nonblock |-> FALSE]
NoOut == [red |-> Zeros, ir |-> Zeros, len |-> 0]
NoCmd == [kind |-> "none", copied |-> FALSE, a |-> 0, b |-> 0, sret |-> "OK",
          ret |-> "OK", reads |-> 0, writes |-> <<>>, busok |-> TRUE]

\* the registers max30102_init_sensor leaves behind
InitRegs ==
    [r \in {MAX30102_REG_FIFO_CONFIG, MAX30102_REG_MODE_CONFIG,
            MAX30102_REG_SPO2_CONFIG, MAX30102_REG_MULTI_LED_MODE_1,
            MAX30102_REG_MULTI_LED_MODE_2} |->
        CASE r = MAX30102_REG_FIFO_CONFIG -> 128
          [] r = MAX30102_REG_MODE_CONFIG -> 3
          [] r = MAX30102_REG_SPO2_CONFIG -> 71
          [] r = MAX30102_REG_MULTI_LED_MODE_1 -> 1
          [] OTHER -> 2]

\* the state max30102_probe leaves behind: the structure zeroed by
\* devm_kzalloc, the mutex and the work item initialised, the wait queue
\* head not initialised, the sensor configured
\* the builds: the two max30102_read of max30102_core.c go with the
\* max30102_read_fifo of max30102_data.c, the third max30102_read with
\* the max30102_read_fifo that sits beside max30102_ioctl
Builds == {<<"unchecked", "autoclear">>, <<"checked", "autoclear">>,
           <<"unchecked", "trace">>}

Probed ==
    /\ lock = NoOwner
    /\ red_data = Zeros
    /\ ir_data = Zeros
    /\ data_len = 0
    /\ fifo_full = FALSE
    /\ wq_next = [n \in Nodes |-> IF n = WqHead THEN Null ELSE n]
    /\ wq_prev = [n \in Nodes |-> IF n = WqHead THEN Null ELSE n]
    /\ work_pending = FALSE
    /\ wpc = "idle"
    /\ wlen = 0
    /\ wi = 0
    /\ wbuf = <<>>
    /\ fifo_pos = 0
    /\ regs = InitRegs
    /\ pc = [p \in Procs |-> "closed"]
    /\ op = [p \in Procs |-> NoOp]
    /\ out = [p \in Procs |-> NoOut]
    /\ ret = [p \in Procs |-> "OK"]
    /\ wret = [p \in Procs |-> "OK"]
    /\ tstate = [p \in Procs |-> "RUNNING"]
    /\ sig = [p \in Procs |-> FALSE]
    /\ nbus = [p \in Procs |-> 0]
    /\ \E b \in Builds : read_ver = b[1] /\ rf_ver = b[2]
    /\ cmd = NoCmd
    /\ ncmd = 0
    /\ pubs = <<>>
    /\ delivered = 0
    /\ skipped = FALSE

\* no unit is run on its own
Init == Probed /\ call = NoCall

(***************************************************************************)
(* The kernel mutex data->lock.                                            *)
(***************************************************************************)
\* mutex_lock returns only when no context owns the mutex
\* MutexFree with the mutual exclusion of data->lock taken away
MutexFreeMut(c) == TRUE
MutexFree(c) == lock = NoOwner

(***************************************************************************)
(* The wait queue wait_data_ready, as the kernel's list operations.        *)
(***************************************************************************)
\* list_del_init(e), on whatever e's own pointers say its neighbours are
ListDelInit(nx, pv, e) ==
    LET n == nx[e]
        p == pv[e]
        pv1 == [pv EXCEPT ![n] = p]
        nx1 == [nx EXCEPT ![p] = n]
    IN  [next |-> [nx1 EXCEPT ![e] = e], prev |-> [pv1 EXCEPT ![e] = e]]

\* list_add(e, head): insert e right after the head
ListAdd(nx, pv, e) ==
    LET n == nx[WqHead]
        pv1 == [pv EXCEPT ![n] = e]
        nx1 == [nx EXCEPT ![e] = n]
        pv2 == [pv1 EXCEPT ![e] = WqHead]
    IN  [next |-> [nx1 EXCEPT ![WqHead] = e], prev |-> pv2]

\* the entries wake_up reaches from the head by next pointers; Null in the
\* result when the walk meets a null pointer, WqHead when it does not come
\* back to the head within the number of entries that exist
RECURSIVE WqWalk(_, _, _)
WqWalk(nx, n, fuel) ==
    IF n = WqHead THEN {}
    ELSE IF n = Null THEN {Null}
    ELSE IF fuel = 0 THEN {WqHead}
    ELSE {n} \cup WqWalk(nx, nx[n], fuel - 1)

WqEntries == WqWalk(wq_next, wq_next[WqHead], Cardinality(Procs))

(***************************************************************************)
(* The interrupt and the work handler.                                     *)
(***************************************************************************)
\* max30102_irq_handler: schedule_work; the device interrupts while its
\* stream has samples left
Irq ==
    /\ fifo_pos < MaxSamples
    /\ ~work_pending
    /\ work_pending' = TRUE
    /\ UNCHANGED <<lock, mailbox, wqvars, wpc, wlen, wi, wbuf, fifo_pos,
                   procvars, buildvars, unitvars, cmdvars, histvars>>

\* the workqueue starts the handler: mutex_lock(&data->lock)
WorkLock ==
    /\ wpc = "idle"
    /\ work_pending
    /\ MutexFree(Worker)
    /\ lock' = Worker
    /\ work_pending' = FALSE
    /\ wpc' = "status"
    /\ UNCHANGED <<mailbox, wqvars, wlen, wi, wbuf, fifo_pos, procvars,
                   buildvars, unitvars, cmdvars, histvars>>

\* what the handler does once both status registers are read and the
\* FIFO-full bit is set: read the two pointers, compute and check the
\* count, allocate, burst-read the FIFO data register.  The result is the
\* count and the buffer, or no buffer when the drain is abandoned.
Drain(wp, rp, xptr, alloc_ok, xdata) ==
    LET len == FifoCount(wp, rp)
    IN  IF ReadRegRet(1, xptr) # "OK" THEN [ok |-> FALSE, len |-> 0]
        ELSE IF len = 0 \/ len > 32 THEN [ok |-> FALSE, len |-> len]
        ELSE IF ~alloc_ok THEN [ok |-> FALSE, len |-> len]
        ELSE IF ReadRegRet(len * 6, xdata) # "OK"
             THEN [ok |-> FALSE, len |-> len]
        ELSE [ok |-> TRUE, len |-> len]

\* status reads, and the drain up to the decode loop
WorkAbandon ==
    /\ lock' = NoOwner
    /\ wpc' = "idle"
    /\ UNCHANGED <<wlen, wbuf, fifo_pos, wi>>

WorkStatus ==
    /\ wpc = "status"
    /\ \E xs \in XferVals :
         IF ReadRegRet(1, xs) # "OK" THEN WorkAbandon
         ELSE \E status1 \in StatusVals :
           IF ~StatusFifoFull(status1) THEN WorkAbandon
           ELSE \E xptr \in XferVals :
             IF ReadRegRet(1, xptr) # "OK" THEN WorkAbandon
             ELSE \E wp \in PtrVals, rp \in PtrVals :
               IF ~Drain(wp, rp, xptr, TRUE, 2).ok THEN WorkAbandon
               ELSE \E alloc_ok \in BOOLEAN, xdata \in XferVals :
                 LET d == Drain(wp, rp, xptr, alloc_ok, xdata)
                 IN  \* the pointers never announce more than the stream holds
                     /\ fifo_pos + d.len <= MaxSamples
                     /\ IF d.ok
                        THEN /\ wlen' = d.len
                             /\ wbuf' = FifoBurst(fifo_pos + 1, d.len)
                             /\ fifo_pos' = fifo_pos + d.len
                             /\ wi' = 0
                             /\ wpc' = "decode"
                             /\ UNCHANGED lock
                        ELSE WorkAbandon
    /\ UNCHANGED <<mailbox, wqvars, work_pending, procvars, buildvars, unitvars,
                   cmdvars, histvars>>

\* one iteration of the decode loop
WorkDecode ==
    /\ wpc = "decode"
    /\ wi < wlen
    /\ red_data' = [red_data EXCEPT ![wi] = DecodeRed(wbuf, wi)]
    /\ ir_data' = [ir_data EXCEPT ![wi] = DecodeIr(wbuf, wi)]
    /\ wi' = wi + 1
    /\ UNCHANGED <<lock, data_len, fifo_full, wqvars, work_pending, wpc, wlen,
                   wbuf, fifo_pos, procvars, buildvars, unitvars, cmdvars, histvars>>

\* the Sample Set the mailbox holds: len and the first len samples
Triple(len, red, ir) ==
    [len |-> len,
     red |-> [i \in {j \in Idx : j < len} |-> red[i]],
     ir |-> [i \in {j \in Idx : j < len} |-> ir[i]]]

\* data->fifo_full = true: the set is published
WorkFull ==
    /\ wpc = "decode"
    /\ wi >= wlen
    /\ data_len' = wlen
    /\ fifo_full' = TRUE
    /\ pubs' = Append(pubs, Triple(wlen, red_data, ir_data))
    /\ wpc' = "wake"
    /\ UNCHANGED <<lock, red_data, ir_data, wqvars, work_pending, wlen, wi,
                   wbuf, fifo_pos, procvars, buildvars, unitvars, cmdvars, delivered,
                   skipped>>

\* wake_up_interruptible(&data->wait_data_ready), kfree and
\* mutex_unlock(&data->lock): every entry reached from
\* the head whose task sleeps is made runnable and unlinked
\* (autoremove_wake_function).  A head that was never initialised holds
\* null pointers: the walk dereferences one and the kworker dies in the
\* handler, with data->lock held.
WakeTargets == {e \in WqEntries \cap Procs : tstate[e] = "INTERRUPTIBLE"}

RECURSIVE UnlinkAll(_, _, _)
UnlinkAll(nx, pv, es) ==
    IF es = {} THEN [next |-> nx, prev |-> pv]
    ELSE LET e == CHOOSE x \in es : TRUE
             l == ListDelInit(nx, pv, e)
         IN  UnlinkAll(l.next, l.prev, es \ {e})

WorkWake ==
    /\ wpc = "wake"
    /\ IF Null \in WqEntries \/ WqHead \in WqEntries
       THEN /\ wpc' = "oops"
            /\ UNCHANGED <<lock, wqvars, tstate, wbuf, wlen, wi>>
       ELSE /\ tstate' = [p \in Procs |->
                            IF p \in WakeTargets THEN "RUNNING" ELSE tstate[p]]
            /\ LET l == UnlinkAll(wq_next, wq_prev, WakeTargets)
               IN  /\ wq_next' = l.next
                   /\ wq_prev' = l.prev
            /\ wbuf' = <<>>
            /\ wlen' = 0
            /\ wi' = 0
            /\ lock' = NoOwner
            /\ wpc' = "idle"
    /\ UNCHANGED <<mailbox, work_pending, fifo_pos, pc, op, out, ret, wret,
                   sig, nbus, buildvars, unitvars, cmdvars, histvars>>

(***************************************************************************)
(* The file operations.                                                    *)
(***************************************************************************)
\* max30102_open: init_waitqueue_head(&data->wait_data_ready), on every open
MaxOpen(p) ==
    /\ pc[p] = "closed"
    /\ pc' = [pc EXCEPT ![p] = "idle"]
    /\ wq_next' = [wq_next EXCEPT ![WqHead] = WqHead]
    /\ wq_prev' = [wq_prev EXCEPT ![WqHead] = WqHead]
    /\ UNCHANGED <<lock, mailbox, workervars, op, out, ret, wret, tstate, sig,
                   nbus, buildvars, unitvars, cmdvars, histvars>>

\* max30102_read with O_NONBLOCK: if (!data->fifo_full) return -EAGAIN
\* NonblockEmpty of a read that never takes the early return
NonblockEmptyMut == FALSE
NonblockEmpty == ~fifo_full

ReadNonblock(p) ==
    /\ pc[p] = "idle"
    /\ op' = [op EXCEPT ![p] = [kind |-> "read", nonblock |-> TRUE]]
    /\ IF NonblockEmpty
       THEN /\ ret' = [ret EXCEPT ![p] = "EAGAIN"]
            /\ pc' = [pc EXCEPT ![p] = "done"]
       ELSE /\ pc' = [pc EXCEPT ![p] = "rf_check"]
            /\ UNCHANGED ret
    /\ UNCHANGED <<lock, mailbox, wqvars, workervars, out, wret, tstate, sig,
                   nbus, buildvars, unitvars, cmdvars, histvars>>

\* max30102_read without O_NONBLOCK: wait_event_interruptible tests the
\* condition once before it queues the task
ReadBlock(p) ==
    /\ pc[p] = "idle"
    /\ op' = [op EXCEPT ![p] = [kind |-> "read", nonblock |-> FALSE]]
    /\ pc' = [pc EXCEPT ![p] = IF fifo_full THEN "rf_check" ELSE "w_prepare"]
    /\ UNCHANGED <<lock, mailbox, wqvars, workervars, out, ret, wret, tstate,
                   sig, nbus, buildvars, unitvars, cmdvars, histvars>>

\* prepare_to_wait_event: with a signal pending the entry is unlinked and
\* -ERESTARTSYS handed back; otherwise the entry is queued (if it is not)
\* and the task state set to TASK_INTERRUPTIBLE
WaitPrepare(p) ==
    /\ pc[p] = "w_prepare"
    /\ IF sig[p]
       THEN /\ LET l == ListDelInit(wq_next, wq_prev, p)
               IN  /\ wq_next' = l.next
                   /\ wq_prev' = l.prev
            /\ wret' = [wret EXCEPT ![p] = "ERESTARTSYS"]
            /\ UNCHANGED tstate
       ELSE /\ LET l == IF wq_next[p] = p
                        THEN ListAdd(wq_next, wq_prev, p)
                        ELSE [next |-> wq_next, prev |-> wq_prev]
               IN  /\ wq_next' = l.next
                   /\ wq_prev' = l.prev
            /\ tstate' = [tstate EXCEPT ![p] = "INTERRUPTIBLE"]
            /\ wret' = [wret EXCEPT ![p] = "OK"]
    /\ pc' = [pc EXCEPT ![p] = "w_cond"]
    /\ UNCHANGED <<lock, mailbox, workervars, op, out, ret, sig, nbus,
                   buildvars, unitvars, cmdvars, histvars>>

\* max30102_read after wait_event_interruptible returned w: the version
\* that tests the value returns it when negative, the other ignores it
AfterWait(p, w) ==
    IF read_ver = "checked" /\ w # "OK"
    THEN /\ ret' = [ret EXCEPT ![p] = w]
         /\ pc' = [pc EXCEPT ![p] = "done"]
    ELSE /\ pc' = [pc EXCEPT ![p] = "rf_check"]
         /\ UNCHANGED ret

\* ___wait_event after prepare: the condition first, then the signal
WaitCond(p) ==
    /\ pc[p] = "w_cond"
    /\ IF fifo_full
       THEN \* break; finish_wait
            /\ wret' = [wret EXCEPT ![p] = "OK"]
            /\ tstate' = [tstate EXCEPT ![p] = "RUNNING"]
            /\ LET l == IF wq_next[p] # p \/ wq_prev[p] # p
                        THEN ListDelInit(wq_next, wq_prev, p)
                        ELSE [next |-> wq_next, prev |-> wq_prev]
               IN  /\ wq_next' = l.next
                   /\ wq_prev' = l.prev
            /\ AfterWait(p, "OK")
       ELSE IF wret[p] # "OK"
       THEN \* goto __out
            /\ AfterWait(p, wret[p])
            /\ UNCHANGED <<wret, tstate, wqvars>>
       ELSE /\ pc' = [pc EXCEPT ![p] = "w_sched"]
            /\ UNCHANGED <<ret, wret, tstate, wqvars>>
    /\ UNCHANGED <<lock, mailbox, workervars, op, out, sig, nbus, buildvars, unitvars,
                   cmdvars, histvars>>

\* schedule(): returns once the task is runnable; a pending signal keeps
\* an interruptible task from sleeping
WaitSched(p) ==
    /\ pc[p] = "w_sched"
    /\ tstate[p] = "RUNNING" \/ sig[p]
    /\ tstate' = [tstate EXCEPT ![p] = "RUNNING"]
    /\ pc' = [pc EXCEPT ![p] = "w_prepare"]
    /\ UNCHANGED <<lock, mailbox, wqvars, workervars, op, out, ret, wret, sig,
                   nbus, buildvars, unitvars, cmdvars, histvars>>

\* a signal is sent to a task inside the blocking read
Signal(p) ==
    /\ pc[p] \in {"w_prepare", "w_cond", "w_sched"}
    /\ ~sig[p]
    /\ sig' = [sig EXCEPT ![p] = TRUE]
    /\ tstate' = [tstate EXCEPT ![p] = "RUNNING"]
    /\ UNCHANGED <<lock, mailbox, wqvars, workervars, pc, op, out, ret, wret,
                   nbus, buildvars, unitvars, cmdvars, histvars>>

\* max30102_ioctl (MAX30102_IOC_READ_FIFO) and max30102_debug_dump_fifo:
\* mutex_lock(&data->lock), then the call of max30102_read_fifo
LockedCall(p, kind) ==
    /\ pc[p] = "idle"
    /\ MutexFree(p)
    /\ lock' = p
    /\ op' = [op EXCEPT ![p] = [kind |-> kind, nonblock |-> FALSE]]
    /\ pc' = [pc EXCEPT ![p] = "rf_check"]
    /\ UNCHANGED <<mailbox, wqvars, workervars, out, ret, wret, tstate, sig,
                   nbus, buildvars, unitvars, cmdvars, histvars>>

\* where max30102_read_fifo's caller goes on once it returned r: read()
\* returns, the locked callers go to their unlock label
RfReturn(p, r) ==
    /\ ret' = [ret EXCEPT ![p] = r]
    /\ pc' = [pc EXCEPT ![p] = IF op[p].kind = "read" THEN "done"
                                                     ELSE "io_unlock"]

\* max30102_read_fifo: the emptiness test
FifoEmpty == ~fifo_full

\* max30102_read_fifo up to its mutex_lock: the emptiness test and the
\* read of the overflow counter
RfCheck(p) ==
    /\ pc[p] = "rf_check"
    /\ IF FifoEmpty
       THEN /\ RfReturn(p, "ENODATA")
            /\ UNCHANGED nbus
       ELSE \E x \in XferVals :
              /\ nbus' = [nbus EXCEPT ![p] = nbus[p] + 1]
              /\ IF rf_ver = "autoclear" /\ ReadRegRet(1, x) # "OK"
                 THEN RfReturn(p, ReadRegRet(1, x))
                 ELSE /\ pc' = [pc EXCEPT ![p] = "rf_lock"]
                      /\ UNCHANGED ret
    /\ UNCHANGED <<lock, mailbox, wqvars, workervars, op, out, wret, tstate,
                   sig, buildvars, unitvars, cmdvars, histvars>>

\* max30102_read_fifo: mutex_lock(&data->lock)
RfLock(p) ==
    /\ pc[p] = "rf_lock"
    /\ MutexFree(p)
    /\ lock' = p
    /\ pc' = [pc EXCEPT ![p] = "rf_red"]
    /\ UNCHANGED <<mailbox, wqvars, workervars, op, out, ret, wret, tstate,
                   sig, nbus, buildvars, unitvars, cmdvars, histvars>>

\* memcpy(red, data->red_data, ...)
RfRed(p) ==
    /\ pc[p] = "rf_red"
    /\ out' = [out EXCEPT ![p].red = red_data]
    /\ pc' = [pc EXCEPT ![p] = "rf_ir"]
    /\ UNCHANGED <<lock, mailbox, wqvars, workervars, op, ret, wret, tstate,
                   sig, nbus, buildvars, unitvars, cmdvars, histvars>>

\* data->fifo_full = false
\* ConsumedFlag of a consume that leaves the flag set
ConsumedFlagMut == TRUE
ConsumedFlag == FALSE

\* memcpy(ir, data->ir_data, ...); *len = data->data_len;
\* data->fifo_full = false
RfIr(p) ==
    /\ pc[p] = "rf_ir"
    /\ out' = [out EXCEPT ![p].ir = ir_data, ![p].len = data_len]
    /\ fifo_full' = ConsumedFlag
    /\ skipped' = (skipped \/ Len(pubs) > delivered + 1)
    /\ delivered' = Len(pubs)
    /\ pc' = [pc EXCEPT ![p] = "rf_unlock"]
    /\ UNCHANGED <<lock, red_data, ir_data, data_len, wqvars, workervars, op,
                   ret, wret, tstate, sig, nbus, buildvars, unitvars, cmdvars, pubs>>

\* max30102_read after a successful max30102_read_fifo: copy_to_user of a
\* buffer that is large enough succeeds or faults
ReadRets == {"OK", "EFAULT"}

\* the end of max30102_read_fifo: the automatic FIFO clear of the one
\* version (three register writes, the first failure returns), then
\* mutex_unlock and the return into the caller
RfUnlock(p) ==
    /\ pc[p] = "rf_unlock"
    /\ lock' = NoOwner
    /\ \E r \in ReadRets :
         LET rr == IF op[p].kind = "read" THEN r ELSE "OK"
         IN  IF rf_ver = "autoclear"
             THEN \E x1 \in XferVals :
                  IF WriteRegRet(1, x1) # "OK"
                  THEN /\ nbus' = [nbus EXCEPT ![p] = nbus[p] + 1]
                       /\ RfReturn(p, WriteRegRet(1, x1))
                  ELSE \E x2 \in XferVals :
                       IF WriteRegRet(1, x2) # "OK"
                       THEN /\ nbus' = [nbus EXCEPT ![p] = nbus[p] + 2]
                            /\ RfReturn(p, WriteRegRet(1, x2))
                       ELSE \E x3 \in XferVals :
                            /\ nbus' = [nbus EXCEPT ![p] = nbus[p] + 3]
                            /\ IF WriteRegRet(1, x3) # "OK"
                               THEN RfReturn(p, WriteRegRet(1, x3))
                               ELSE RfReturn(p, rr)
             ELSE /\ UNCHANGED nbus
                  /\ RfReturn(p, rr)
    /\ UNCHANGED <<mailbox, wqvars, workervars, op, out, wret, tstate, sig,
                   buildvars, unitvars, cmdvars, histvars>>

\* unlock: mutex_unlock(&data->lock) of the locked callers
IoUnlock(p) ==
    /\ pc[p] = "io_unlock"
    /\ lock' = NoOwner
    /\ pc' = [pc EXCEPT ![p] = "done"]
    /\ UNCHANGED <<mailbox, wqvars, workervars, op, out, ret, wret, tstate,
                   sig, nbus, buildvars, unitvars, cmdvars, histvars>>

\* the system call returns to user space; a pending signal is delivered
SysReturn(p) ==
    /\ pc[p] = "done"
    /\ pc' = [pc EXCEPT ![p] = "idle"]
    /\ op' = [op EXCEPT ![p] = NoOp]
    /\ out' = [out EXCEPT ![p] = NoOut]
    /\ ret' = [ret EXCEPT ![p] = "OK"]
    /\ wret' = [wret EXCEPT ![p] = "OK"]
    /\ sig' = [sig EXCEPT ![p] = FALSE]
    /\ nbus' = [nbus EXCEPT ![p] = 0]
    /\ UNCHANGED <<lock, mailbox, wqvars, workervars, tstate, buildvars, unitvars,
                   cmdvars, histvars>>

LockedKinds == {"ioctl", "dump"}

Next ==
    \/ Irq
    \/ WorkLock
    \/ WorkStatus
    \/ WorkDecode
    \/ WorkFull
    \/ WorkWake
    \/ \E p \in Procs : MaxOpen(p)
    \/ \E p \in Procs : ReadNonblock(p)
    \/ \E p \in Procs : ReadBlock(p)
    \/ \E p \in Procs : WaitPrepare(p)
    \/ \E p \in Procs : WaitCond(p)
    \/ \E p \in Procs : WaitSched(p)
    \/ \E p \in Procs : Signal(p)
    \/ \E p \in Procs, k \in LockedKinds : LockedCall(p, k)
    \/ \E p \in Procs : RfCheck(p)
    \/ \E p \in Procs : RfLock(p)
    \/ \E p \in Procs : RfRed(p)
    \/ \E p \in Procs : RfIr(p)
    \/ \E p \in Procs : RfUnlock(p)
    \/ \E p \in Procs : IoUnlock(p)
    \/ \E p \in Procs : SysReturn(p)

Spec == Init /\ [][Next]_vars

(***************************************************************************)
(* The configuration commands of max30102_ioctl.  The whole command runs   *)
(* under data->lock, so each one is a single step.  A setter's outcome is  *)
(* a record: sret its return value, reads the bus reads it issued, writes  *)
(* the <<register, byte>> frames it put on the bus, regs the registers     *)
(* afterwards, busok whether every transfer went through.                  *)
(***************************************************************************)
ModeVals == {0, 2, 3, 4, 7}
SlotVals == 0 .. 5
LedVals == 0 .. 4
FifoCfgVals == {0, 79, 255}
PwVals == {0, 1, 2}
SrVals == {3, 4, 5, 6, 7}
Spo2Vals == {pw + 4 * sr + 128 * hi : pw \in PwVals, sr \in SrVals, hi \in {0, 1}}
\* what an uninitialised byte on the stack may hold
GarbageVals == {0, 255}

Rejected(r) ==
    [sret |-> "EINVAL", reads |-> 0, writes |-> <<>>, regs |-> r,
     busok |-> TRUE]

\* max30102_write_reg of one byte: the frame goes out; the register takes
\* the byte when the transfer is acknowledged
WriteByte(r, reg, value, x) ==
    [sret |-> WriteRegRet(1, x), reads |-> 0, writes |-> << <<reg, value>> >>,
     regs |-> IF x = 1 THEN [r EXCEPT ![reg] = value] ELSE r,
     busok |-> (x = 1)]

max30102_set_mode(r, mode, x) ==
    IF mode # 2 /\ mode # 3 /\ mode # 7 THEN Rejected(r)
    ELSE WriteByte(r, MAX30102_REG_MODE_CONFIG, mode, x)

\* the field of a slot: its register and its shift
SlotReg(slot) ==
    IF slot <= 2 THEN MAX30102_REG_MULTI_LED_MODE_1
    ELSE MAX30102_REG_MULTI_LED_MODE_2
SlotShift(slot) == IF slot % 2 = 1 THEN 0 ELSE 4

\* max30102_set_slot: the result of the read is not tested, so after a
\* failed read `current` is whatever the stack held (garbage)
max30102_set_slot(r, slot, led, xr, garbage, xw) ==
    IF slot < 1 \/ slot > 4 \/ led > 3 THEN Rejected(r)
    ELSE LET reg == SlotReg(slot)
             shift == SlotShift(slot)
             current == IF ReadRegRet(1, xr) = "OK" THEN r[reg] ELSE garbage
             \* current & ~(0x07 << shift), on a byte
             value == U8(BitOr(BitAnd(current, 255 - Shl(7, shift)),
                               Shl(led, shift)))
             w == WriteByte(r, reg, value, xw)
         IN  [w EXCEPT !.reads = 1,
                       !.busok = (w.busok /\ ReadRegRet(1, xr) = "OK")]

max30102_set_fifo_config(r, config, x) ==
    \* config & ~0xFF is zero for every byte
    IF BitAnd(config, 0) # 0 THEN Rejected(r)
    ELSE WriteByte(r, MAX30102_REG_FIFO_CONFIG, config, x)

max30102_set_spo2_config(r, config, x) ==
    LET pw == BitAnd(config, 3)
        sr == BitAnd(Shr(config, 2), 7)
    IN  IF BitAnd(config, 128) # 0 THEN Rejected(r)
        ELSE IF (pw = 0 /\ sr > 4) \/ (pw = 1 /\ sr > 6) THEN Rejected(r)
        ELSE WriteByte(r, MAX30102_REG_SPO2_CONFIG, config, x)

\* max30102_ioctl: the statement after the switch, `ret = 0`, is reached by
\* every case that leaves the switch with break
AfterSwitch(sret) == "OK"

\* max30102_ioctl, MAX30102_IOC_SET_SLOT: the test before the call
\* SlotPrecheck of a command that hands every pair to the setter
SlotPrecheckMut(slot, led) == FALSE
SlotPrecheck(slot, led) == slot < 1 \/ slot > 4 \/ led > 2

\* copy_from_user failed: ret = -EFAULT; goto unlock
CmdFault(kind) ==
    /\ cmd' = [NoCmd EXCEPT !.kind = kind, !.sret = "EFAULT", !.ret = "EFAULT"]
    /\ UNCHANGED regs

\* the setter ran and the switch was left with break
CmdRan(kind, a, b, o) ==
    /\ cmd' = [kind |-> kind, copied |-> TRUE, a |-> a, b |-> b,
               sret |-> o.sret, ret |-> AfterSwitch(o.sret),
               reads |-> o.reads, writes |-> o.writes, busok |-> o.busok]
    /\ regs' = o.regs

CmdFrame ==
    /\ ncmd < MaxCmds
    /\ MutexFree("ioctl")
    /\ ncmd' = ncmd + 1
    /\ UNCHANGED <<lock, mailbox, wqvars, workervars, procvars, buildvars, unitvars,
                   histvars>>

IoctlSetMode ==
    /\ CmdFrame
    /\ \E copy_ok \in BOOLEAN :
         IF ~copy_ok THEN CmdFault("SET_MODE")
         ELSE \E mode \in ModeVals, x \in XferVals :
                CmdRan("SET_MODE", mode, 0, max30102_set_mode(regs, mode, x))

IoctlSetSlot ==
    /\ CmdFrame
    /\ \E copy_ok \in BOOLEAN :
         IF ~copy_ok THEN CmdFault("SET_SLOT")
         ELSE \E slot \in SlotVals, led \in LedVals :
              IF SlotPrecheck(slot, led)
              THEN /\ cmd' = [NoCmd EXCEPT !.kind = "SET_SLOT",
                                           !.copied = TRUE, !.a = slot,
                                           !.b = led, !.sret = "EINVAL",
                                           !.ret = "EINVAL"]
                   /\ UNCHANGED regs
              ELSE \E xr \in XferVals, g \in GarbageVals, xw \in XferVals :
                     CmdRan("SET_SLOT", slot, led,
                            max30102_set_slot(regs, slot, led, xr, g, xw))

IoctlSetFifoConfig ==
    /\ CmdFrame
    /\ \E copy_ok \in BOOLEAN :
         IF ~copy_ok THEN CmdFault("SET_FIFO_CONFIG")
         ELSE \E config \in FifoCfgVals, x \in XferVals :
                CmdRan("SET_FIFO_CONFIG", config, 0,
                       max30102_set_fifo_config(regs, config, x))

IoctlSetSpo2Config ==
    /\ CmdFrame
    /\ \E copy_ok \in BOOLEAN :
         IF ~copy_ok THEN CmdFault("SET_SPO2_CONFIG")
         ELSE \E config \in Spo2Vals, x \in XferVals :
                CmdRan("SET_SPO2_CONFIG", config, 0,
                       max30102_set_spo2_config(regs, config, x))

NextCmd ==
    \/ IoctlSetMode
    \/ IoctlSetSlot
    \/ IoctlSetFifoConfig
    \/ IoctlSetSpo2Config

SpecCmd == Init /\ [][NextCmd]_vars

(***************************************************************************)
(* Properties.                                                             *)
(***************************************************************************)
\* what a consume hands back: len and the first len samples of each array
OutTriple(p) == Triple(out[p].len, out[p].red, out[p].ir)

\* C1: under every interleaving of the work handler with sample reads, the
\* triple (len, red[0..len-1], ir[0..len-1]) a successful consume returns
\* is the triple one publish wrote, never a mixture of two publishes.
C1_OnePublish ==
    \A p \in Procs :
        (pc[p] = "done" /\ ret[p] = "OK") =>
            \E k \in 1 .. Len(pubs) : OutTriple(p) = pubs[k]

\* C1 reached: a read returned the first set and the work handler has
\* published a second one since.
C1_Witness ==
    \E p \in Procs :
        /\ pc[p] = "done" /\ ret[p] = "OK" /\ op[p].kind = "read"
        /\ Len(pubs) = 2
        /\ OutTriple(p) = pubs[1]
        /\ pubs[1] # pubs[2]

\* C2: a READ_FIFO command (or the diagnostic dump) dispatched while the
\* mailbox is full terminates: it never stands at the mutex_lock of
\* max30102_read_fifo waiting for the device lock that it holds itself,
\* where it would wait forever.
C2_NoSelfWait ==
    \A p \in Procs : ~(pc[p] = "rf_lock" /\ lock = p)

\* C3: after publishes A then B with no consume between them the next
\* consume copies B (every consume copies the newest publish), the mailbox
\* holds an unconsumed set exactly when a publish followed the last
\* consume, and a non-blocking read issued with no publish since the last
\* consume fails with no-data.
C3_NewestWins ==
    [][\A p \in Procs :
          /\ (pc[p] = "rf_ir" /\ pc'[p] = "rf_unlock") =>
                /\ Len(pubs) > 0
                /\ Triple(out'[p].len, out'[p].red, out'[p].ir)
                       = pubs[Len(pubs)]
                /\ ~fifo_full'
          /\ fifo_full = (Len(pubs) > delivered)
          /\ (pc[p] = "idle" /\ op'[p].kind = "read" /\ op'[p].nonblock
                /\ delivered = Len(pubs)) =>
                (pc'[p] = "done" /\ ret'[p] = "EAGAIN")]_vars

\* C3 reached: two publishes, a consume that skipped the first of them,
\* then a non-blocking read that failed with no-data.
C3_Witness ==
    \E p \in Procs :
        /\ pc[p] = "done" /\ op[p].kind = "read" /\ op[p].nonblock
        /\ ret[p] = "EAGAIN"
        /\ skipped
        /\ Len(pubs) = 2 /\ delivered = 2

\* C4: a consumer suspended in a blocking read is resumed after a publish:
\* once the work handler has finished the wake-up of a set that is still
\* unconsumed, no blocking reader is left asleep.
C4_NoSleeperLeft ==
    \A p \in Procs :
        ~(/\ pc[p] = "w_sched" /\ tstate[p] = "INTERRUPTIBLE" /\ ~sig[p]
          /\ fifo_full /\ wpc = "idle" /\ ~work_pending)

\* C5: a blocking read whose wait a signal interrupted before any publish
\* returns the cancellation error, and the mailbox is as it was.
C5_Cancelled ==
    \A p \in Procs :
        (pc[p] = "done" /\ op[p].kind = "read" /\ ~op[p].nonblock
           /\ sig[p] /\ Len(pubs) = 0) =>
            (ret[p] = "ERESTARTSYS" /\ ~fifo_full /\ data_len = 0)

\* C6: a non-blocking read issued while the full flag is clear fails with
\* no-data, performs no bus transaction and leaves samples, len and flag
\* unchanged.
C6_NonblockNoData ==
    [][\A p \in Procs :
          (pc[p] = "idle" /\ op'[p].kind = "read" /\ op'[p].nonblock
             /\ ~fifo_full) =>
            (/\ pc'[p] = "done"
             /\ ret'[p] = "EAGAIN"
             /\ nbus'[p] = 0
             /\ UNCHANGED mailbox)]_vars

\* C6 reached: a non-blocking read came back with no-data before anything
\* was published.
C6_Witness ==
    \E p \in Procs :
        /\ pc[p] = "done" /\ op[p].kind = "read" /\ op[p].nonblock
        /\ ret[p] = "EAGAIN" /\ nbus[p] = 0
        /\ ~fifo_full /\ Len(pubs) = 0

\* C7: SET_SPO2_CONFIG fails with InvalidParameter, and writes nothing,
\* exactly when (pulse width 0 and sample rate > 4) or (pulse width 1 and
\* sample rate > 6) or bit 7 is set; otherwise it puts the byte on the bus
\* for the SpO2 configuration register.
C7_Spo2Checked ==
    (cmd.kind = "SET_SPO2_CONFIG" /\ cmd.copied) =>
        LET pw == cmd.a % 4
            sr == (cmd.a \div 4) % 8
            bad == (pw = 0 /\ sr > 4) \/ (pw = 1 /\ sr > 6) \/ cmd.a >= 128
        IN  /\ (cmd.ret = "EINVAL") = bad
            /\ bad => cmd.writes = <<>>
            /\ ~bad => cmd.writes = << <<MAX30102_REG_SPO2_CONFIG, cmd.a>> >>

\* C8: SET_MODE with a byte outside {2, 3, 7} fails with InvalidParameter
\* and touches no bus; with a byte in {2, 3, 7} it writes that byte to the
\* mode register.
C8_ModeChecked ==
    (cmd.kind = "SET_MODE" /\ cmd.copied) =>
        IF cmd.a \in {2, 3, 7}
        THEN cmd.writes = << <<MAX30102_REG_MODE_CONFIG, cmd.a>> >>
        ELSE cmd.ret = "EINVAL" /\ cmd.writes = <<>> /\ cmd.reads = 0

\* C9: SET_SLOT with a slot outside 1..4 or an led outside 0..3 fails with
\* InvalidParameter, writes nothing to the bus and reads nothing from it.
C9_SlotRejected ==
    (cmd.kind = "SET_SLOT" /\ cmd.copied
       /\ (cmd.a \notin 1 .. 4 \/ cmd.b \notin 0 .. 3)) =>
        (cmd.ret = "EINVAL" /\ cmd.writes = <<>> /\ cmd.reads = 0)

\* C9 reached: a SET_SLOT for slot 1 with led 4 was refused.
C9_Witness ==
    /\ cmd.kind = "SET_SLOT" /\ cmd.copied
    /\ cmd.a = 1 /\ cmd.b = 4
    /\ cmd.ret = "EINVAL"

\* C10: SET_SLOT with a slot in 1..4 and an led in 0..3 is accepted and,
\* on a working bus, succeeds and leaves that led in the slot's field.
C10_SlotStored ==
    (cmd.kind = "SET_SLOT" /\ cmd.copied /\ cmd.busok
       /\ cmd.a \in 1 .. 4 /\ cmd.b \in 0 .. 3) =>
        /\ cmd.ret = "OK"
        /\ Shr(regs[SlotReg(cmd.a)], SlotShift(cmd.a)) % 8 = cmd.b

\* C11: when the register write a SET_MODE, SET_SLOT, SET_FIFO_CONFIG or
\* SET_SPO2_CONFIG command put on the bus fails, the command returns that
\* I/O error; it reports success only when the write succeeded.
C11_WriteErrorReturned ==
    (cmd.copied /\ cmd.writes # <<>>) =>
        /\ cmd.sret # "OK" => cmd.ret = cmd.sret
        /\ cmd.ret = "OK" => cmd.sret = "OK"

(***************************************************************************)
(* Units of the driver run on their own: one call, its inputs chosen by    *)
(* the initial state.                                                      *)
(***************************************************************************)
\* no other context touches the driver while the unit runs
UnitFrame ==
    UNCHANGED <<lock, wqvars, workervars, procvars, buildvars, cmdvars,
                histvars>>

(***************************************************************************)
(* The register access layer: max30102_write_reg and max30102_read_reg.    *)
(***************************************************************************)
RegFns == {"read_reg", "write_reg"}
RegLens == {0, 1, 6, 30, 32, 33, 36, 186}
\* what i2c_transfer returns when issued, and what it would return if the
\* same transfer were issued once more
XferSeqs == {<<a, b>> : a \in XferVals, b \in XferVals}

RegCalls ==
    {[kind |-> fn, st |-> "pending", len |-> len, xs |-> xs, ret |-> "OK",
      xfers |-> 0] : fn \in RegFns, len \in RegLens, xs \in XferSeqs}

\* a RegXfers that hands every length to the transport
RegXfersMut(len) == 1
\* i2c_transfer calls of one register access: none when the length is
\* refused, else the single call of the function
RegXfers(len) == IF len > I2C_MAX_LEN THEN 0 ELSE 1

RegRet(fn, len, x) ==
    IF fn = "write_reg" THEN WriteRegRet(len, x) ELSE ReadRegRet(len, x)

RegAccess ==
    /\ call.kind \in RegFns
    /\ call.st = "pending"
    /\ call' = [call EXCEPT !.st = "done",
                            !.ret = RegRet(call.kind, call.len, call.xs[1]),
                            !.xfers = RegXfers(call.len)]
    /\ UNCHANGED mailbox
    /\ UnitFrame

(***************************************************************************)
(* The sample codec: the device packs an 18-bit sample into three FIFO     *)
(* bytes, the work handler decodes them.                                   *)
(***************************************************************************)
Vals18 == {0, 1, 2, 3, 4, 255, 1023, 1024, 87381, 131072, 174762, 262143}

\* the three FIFO bytes of an 18-bit sample v
Pack(v) == <<Shr(v, 10), BitAnd(Shr(v, 2), 255), Shl(BitAnd(v, 3), 6)>>

CodecCalls ==
    {[kind |-> "codec", st |-> "pending", red |-> r, ir |-> i, dred |-> 0,
      dir |-> 0] : r \in Vals18, i \in Vals18}

\* one group is packed and put through the decode of the work handler
CodecRoundTrip ==
    /\ call.kind = "codec"
    /\ call.st = "pending"
    /\ LET buf == Pack(call.red) \o Pack(call.ir)
       IN  call' = [call EXCEPT !.st = "done",
                                !.dred = DecodeRed(buf, 0),
                                !.dir = DecodeIr(buf, 0)]
    /\ UNCHANGED mailbox
    /\ UnitFrame

(***************************************************************************)
(* max30102_read_temperature.  "poll" is the version that polls the        *)
(* temperature-ready bit, "fixed" the one that sleeps 100 ms instead.      *)
(* The float result is held in sixteenths of a degree (an integer plus a   *)
(* multiple of 0.0625 is exact in single precision at these magnitudes).   *)
(***************************************************************************)
\* int timeout = 10
TEMP_POLL_BUDGET == 10
\* MAX30102_INT_DIE_TEMP_RDY = 1 (bit number in interrupt status 2)
MAX30102_INT_DIE_TEMP_RDY == 1

TempVers == {"poll", "fixed"}
\* interrupt status 2 as the device may present it
Status2Vals == {0, 2}
\* contents of the temperature integer and fraction registers
TempInts == {0, 1, 25, 127, 128, 255}
TempFracs == 0 .. 15

TempCalls ==
    {[kind |-> "temp", ver |-> v, st |-> "start", timeout |-> TEMP_POLL_BUDGET,
      polls |-> 0, first |-> 0, busok |-> TRUE, i |-> 0, f |-> 0,
      ret |-> "OK", has_val |-> FALSE, val |-> 0] : v \in TempVers}

\* (int8_t)temp_int
Signed8(b) == IF b >= 128 THEN b - 256 ELSE b

\* *temp = (int8_t)temp_int + (temp_frac * 0.0625), resp.
\* *temp = temp_int + (temp_frac * 0.0625), in sixteenths
TempValue(ver, i, f) ==
    (IF ver = "fixed" THEN i ELSE Signed8(i)) * 16 + f

TempReady(status) == BitAnd(status, Shl(1, MAX30102_INT_DIE_TEMP_RDY)) # 0

\* a TempTimedOut that never reports the budget as spent
TempTimedOutMut(timeout) == FALSE
\* if (timeout <= 0) return -ETIMEDOUT
TempTimedOut(timeout) == timeout <= 0

\* a register access of the call failed with e
TempFail(e) ==
    call' = [call EXCEPT !.st = "done", !.ret = e, !.busok = FALSE]

\* the write that starts the conversion
TempStart ==
    /\ call.kind = "temp"
    /\ call.st = "start"
    /\ \E x \in XferVals :
         IF WriteRegRet(1, x) # "OK" THEN TempFail(WriteRegRet(1, x))
         ELSE call' = [call EXCEPT !.st = IF call.ver = "poll" THEN "poll"
                                                               ELSE "read_int"]
    /\ UNCHANGED mailbox
    /\ UnitFrame

\* one round of the do-while loop and, when the loop is left, the test of
\* the budget after it
TempPoll ==
    /\ call.kind = "temp"
    /\ call.st = "poll"
    /\ \E x \in XferVals :
         IF ReadRegRet(1, x) # "OK"
         THEN call' = [call EXCEPT !.st = "done", !.ret = ReadRegRet(1, x),
                                   !.busok = FALSE, !.polls = call.polls + 1]
         ELSE \E status \in Status2Vals :
              LET t == call.timeout - 1
                  n == call.polls + 1
                  c == [call EXCEPT !.timeout = t, !.polls = n,
                                    !.first = IF TempReady(status) THEN n
                                                                   ELSE 0]
              IN  IF ~TempReady(status) /\ t > 0
                  THEN call' = c
                  ELSE IF TempTimedOut(t)
                  THEN call' = [c EXCEPT !.st = "done", !.ret = "ETIMEDOUT"]
                  ELSE call' = [c EXCEPT !.st = "read_int"]
    /\ UNCHANGED mailbox
    /\ UnitFrame

\* the read of the integer register
TempReadInt ==
    /\ call.kind = "temp"
    /\ call.st = "read_int"
    /\ \E x \in XferVals :
         IF ReadRegRet(1, x) # "OK" THEN TempFail(ReadRegRet(1, x))
         ELSE \E i \in TempInts :
                call' = [call EXCEPT !.st = "read_frac", !.i = i]
    /\ UNCHANGED mailbox
    /\ UnitFrame

\* the read of the fraction register and the result
TempReadFrac ==
    /\ call.kind = "temp"
    /\ call.st = "read_frac"
    /\ \E x \in XferVals :
         IF ReadRegRet(1, x) # "OK" THEN TempFail(ReadRegRet(1, x))
         ELSE \E f \in TempFracs :
                call' = [call EXCEPT !.st = "done", !.f = f,
                                     !.has_val = TRUE,
                                     !.val = TempValue(call.ver, call.i, f)]
    /\ UNCHANGED mailbox
    /\ UnitFrame

(***************************************************************************)
(* The FIFO_FULL branch of max30102_work_handler run to completion on its  *)
(* own (it holds data->lock from entry to exit), over arbitrary FIFO       *)
(* bytes.  "part_003" is the handler that wakes the readers, "basic" the   *)
(* one of the basic driver.                                                *)
(***************************************************************************)
\* drains in one run
MaxDrains == 2

WhVers == {"part_003", "basic"}
\* 6-byte groups the FIFO may return
GroupVals ==
    {<<0, 0, 0, 0, 0, 0>>, <<1, 2, 64, 3, 4, 128>>, <<3, 0, 0, 4, 0, 0>>,
     <<255, 255, 255, 255, 255, 255>>}

MAX30102_REG_INTERRUPT_STATUS_1 == 0
MAX30102_REG_INTERRUPT_STATUS_2 == 1
MAX30102_REG_INTERRUPT_ENABLE_1 == 2
MAX30102_REG_FIFO_WRITE_POINTER == 4
MAX30102_REG_OVERFLOW_COUNTER == 5
MAX30102_REG_FIFO_READ_POINTER == 6
MAX30102_REG_FIFO_DATA == 7

DrainCalls ==
    {[kind |-> "drain", ver |-> v, n |-> 0, count |-> 0, ok |-> FALSE,
      why |-> "none", x |-> 2, fails |-> 0, rd |-> <<>>] : v \in WhVers}

RECURSIVE Repeat(_, _)
Repeat(g, count) == IF count = 0 THEN <<>> ELSE g \o Repeat(g, count - 1)

\* basic driver: one Red and one IR sample from the i-th 6-byte group
DecodeRedBasic(buf, i) ==
    BitOr(BitOr(Shl(buf[i * 6 + 1], 16), Shl(buf[i * 6 + 2], 8)),
          buf[i * 6 + 3])
DecodeIrBasic(buf, i) ==
    BitOr(BitOr(Shl(buf[i * 6 + 4], 16), Shl(buf[i * 6 + 5], 8)),
          buf[i * 6 + 6])

\* a count that takes the distance between the pointers, without the wrap
FifoCountBasicMut(wp, rp) == IF wp >= rp THEN wp - rp ELSE rp - wp

\* basic driver: len = (write_ptr - read_ptr) & 0x1F (the low five bits of
\* the int difference, which adding 256 leaves alone)
FifoCountBasic(wp, rp) == BitAnd(wp - rp + 256, 31)

FifoCountOf(ver, wp, rp) ==
    IF ver = "basic" THEN FifoCountBasic(wp, rp) ELSE FifoCount(wp, rp)

\* a store that lands one entry further up
StoreIdxMut(i) == i + 1
\* data->red_data[i] = ..., data->ir_data[i] = ...: the entry written in
\* round i of the loop
StoreIdx(i) == i

\* for (int i = 0; i < len; i++) { ... }
RECURSIVE DecodeLoop(_, _, _, _, _)
DecodeLoop(ver, arrs, buf, i, len) ==
    IF i < len
    THEN LET r == IF ver = "basic" THEN DecodeRedBasic(buf, i)
                                   ELSE DecodeRed(buf, i)
             q == IF ver = "basic" THEN DecodeIrBasic(buf, i)
                                   ELSE DecodeIr(buf, i)
         IN  DecodeLoop(ver,
                        [red |-> [arrs.red EXCEPT ![StoreIdx(i)] = r],
                         ir |-> [arrs.ir EXCEPT ![StoreIdx(i)] = q]],
                        buf, i + 1, len)
    ELSE arrs

\* an abandoned run that raises the full flag all the same
DrainAbandonMut(c) ==
    call' = c /\ fifo_full' = TRUE /\ UNCHANGED <<red_data, ir_data, data_len>>
\* goto unlock: nothing of the mailbox was touched
DrainAbandon(c) == call' = c /\ UNCHANGED mailbox

\* One run of the handler, from mutex_lock to mutex_unlock: the status
\* reads, the FIFO_FULL test, the pointer reads, the count, kmalloc, the
\* burst read, the decode loop and the publication.  why tells where the
\* run ended, x is what the transport made of the burst read, rd lists the
\* registers of the reads the run got past.  (The drains
\* of a readiness run come before its query.)
WorkDrain ==
    /\ \/ call.kind = "drain"
       \/ call.kind = "ready" /\ call.revents = "none"
    /\ call.n < MaxDrains
    /\ MutexFree(Worker)
    /\ LET gone(why, len, rd) ==
               [call EXCEPT !.n = call.n + 1, !.count = len, !.ok = FALSE,
                            !.why = why, !.x = 2, !.fails = call.fails + 1,
                            !.rd = rd]
           status == <<MAX30102_REG_INTERRUPT_STATUS_1,
                       MAX30102_REG_INTERRUPT_STATUS_2>>
           ptrs == status \o <<MAX30102_REG_FIFO_WRITE_POINTER,
                               MAX30102_REG_FIFO_READ_POINTER>>
       IN  \E xs \in XferVals :
           IF ReadRegRet(1, xs) # "OK"
           THEN DrainAbandon(gone("status", 0, <<>>))
           ELSE \E status1 \in StatusVals :
           IF ~StatusFifoFull(status1)
           THEN DrainAbandon(gone("nobit", 0, status))
           ELSE \E xptr \in XferVals :
           IF ReadRegRet(1, xptr) # "OK"
           THEN DrainAbandon(gone("ptr", 0, status))
           ELSE \E wp \in PtrVals, rp \in PtrVals :
           LET len == FifoCountOf(call.ver, wp, rp)
           IN  IF len = 0 \/ len > 32
               THEN DrainAbandon(gone("count", len, ptrs))
               ELSE \E alloc_ok \in BOOLEAN :
               IF ~alloc_ok THEN DrainAbandon(gone("alloc", len, ptrs))
               ELSE \E x \in XferVals :
               IF ReadRegRet(len * 6, x) # "OK"
               THEN DrainAbandon([gone("data", len, ptrs) EXCEPT !.x = x])
               ELSE \E g \in GroupVals :
                    LET a == DecodeLoop(call.ver,
                                        [red |-> red_data, ir |-> ir_data],
                                        Repeat(g, len), 0, len)
                    IN  /\ red_data' = a.red
                        /\ ir_data' = a.ir
                        /\ data_len' = len
                        /\ fifo_full' = TRUE
                        /\ call' = [call EXCEPT !.n = call.n + 1,
                                       !.count = len, !.ok = TRUE,
                                       !.why = "ok", !.x = x,
                                       !.rd = ptrs \o <<MAX30102_REG_FIFO_DATA>>]
    /\ UnitFrame

(***************************************************************************)
(* The readiness query: a process opens the device, the work handler may   *)
(* publish, the process asks max30102_poll and then, with nothing in       *)
(* between, issues one call that reads the mailbox: the READ_FIFO ioctl,   *)
(* the FIFO dump of debugfs, or a read() with O_NONBLOCK.  The register    *)
(* dump is the other diagnostic it may run.                                *)
(***************************************************************************)
Caller == "p1"

ReadyCalls ==
    {[kind |-> "ready", ver |-> "part_003", n |-> 0, count |-> 0,
      ok |-> FALSE, why |-> "none", x |-> 2, fails |-> 0, rd |-> <<>>,
      revents |-> "none", full |-> FALSE]}

\* max30102_poll: poll_wait only registers the queue with the poll table
\* (it does not sleep); then POLLIN | POLLRDNORM if fifo_full
max30102_poll == IF fifo_full THEN "POLLIN" ELSE "0"

PollQuery ==
    /\ call.kind = "ready"
    /\ call.revents = "none"
    /\ pc[Caller] = "idle"
    /\ call' = [call EXCEPT !.revents = max30102_poll, !.full = fifo_full]
    /\ UNCHANGED <<lock, mailbox, wqvars, workervars, procvars, buildvars,
                   cmdvars, histvars>>

\* the poll has answered
Asked == call.kind = "ready" /\ call.revents # "none"

\* max30102_debug_dump_registers: under data->lock, one 1-byte read per
\* register of 0x08, 0x0C..0x12, 0x1F, 0x20, 0x21, 0xFE, 0xFF; the first
\* failure returns; nothing is written
DumpRegisters ==
    /\ Asked
    /\ pc[Caller] = "idle"
    /\ MutexFree(Caller)
    /\ op' = [op EXCEPT ![Caller] = [kind |-> "regdump", nonblock |-> FALSE]]
    /\ pc' = [pc EXCEPT ![Caller] = "done"]
    /\ LET DumpRegs == {8, 31, 32, 33, 254, 255} \cup (12 .. 18)
       IN  \E failed \in DumpRegs \cup {-1}, x \in XferVals \ {2} :
             /\ nbus' = [nbus EXCEPT ![Caller] =
                            IF failed = -1 THEN Cardinality(DumpRegs)
                            ELSE Cardinality({r \in DumpRegs : r <= failed})]
             /\ ret' = [ret EXCEPT ![Caller] =
                           IF failed = -1 THEN "OK" ELSE ReadRegRet(1, x)]
    /\ UNCHANGED <<lock, mailbox, wqvars, workervars, out, wret, tstate, sig,
                   buildvars, unitvars, cmdvars, histvars>>

(***************************************************************************)
(* The client application max30102_user.c: the main thread, fifo_thread    *)
(* and temp_thread, the flag running, the pthread mutex and condition      *)
(* variable and the message queue.  A driver call is its outcome: poll     *)
(* reports data or times out, an ioctl succeeds or fails.  m, f and t are  *)
(* the positions of the three threads.                                     *)
(***************************************************************************)
\* struct mq_attr attr = { .mq_maxmsg = 10, ... }
MQ_MAXMSG == 10

AppCalls ==
    {[kind |-> "app", running |-> TRUE, m |-> "loop", f |-> "loop",
      t |-> "loop", mtx |-> "none", mq |-> 0]}

AppStep(c) == call.kind = "app" /\ call' = c /\ UNCHANGED mailbox /\ UnitFrame

\* signal_handler: running = 0 (SIGINT or SIGTERM, in any thread)
signal_handler ==
    /\ call.kind = "app"
    /\ call.running
    /\ AppStep([call EXCEPT !.running = FALSE])

\* fifo_thread
fifo_thread ==
    /\ call.kind = "app"
    /\ CASE call.f = "loop" ->
              \* while (running); poll(&pfd, 1, 1000) > 0 && POLLIN, or not
              \E readable \in BOOLEAN :
                AppStep([call EXCEPT !.f =
                    IF ~call.running THEN "ret"
                    ELSE IF readable THEN "lock" ELSE "sleep"])
         [] call.f = "lock" ->
              \* pthread_mutex_lock; ioctl(READ_FIFO): a failure unlocks and
              \* leaves the loop
              /\ call.mtx = "none"
              /\ \E ok \in BOOLEAN :
                   AppStep(IF ok THEN [call EXCEPT !.mtx = "fifo", !.f = "send"]
                                 ELSE [call EXCEPT !.f = "ret"])
         [] call.f = "send" ->
              \* mq_send blocks while the queue is full; pthread_cond_signal
              \* wakes the main thread if it waits; pthread_mutex_unlock
              /\ call.mq < MQ_MAXMSG
              /\ AppStep([call EXCEPT !.mq = call.mq + 1, !.mtx = "none",
                                      !.f = "sleep",
                                      !.m = IF call.m = "cond_wait"
                                            THEN "relock" ELSE call.m])
         [] call.f = "sleep" -> AppStep([call EXCEPT !.f = "loop"])
         [] OTHER -> FALSE

\* temp_thread
temp_thread ==
    /\ call.kind = "app"
    /\ CASE call.t = "loop" ->
              AppStep([call EXCEPT !.t = IF call.running THEN "lock"
                                                         ELSE "ret"])
         [] call.t = "lock" ->
              \* pthread_mutex_lock; ioctl(READ_TEMP); pthread_mutex_unlock;
              \* a failure leaves the loop
              /\ call.mtx = "none"
              /\ \E ok \in BOOLEAN :
                   AppStep([call EXCEPT !.t = IF ok THEN "sleep" ELSE "ret"])
         [] call.t = "sleep" -> AppStep([call EXCEPT !.t = "loop"])
         [] OTHER -> FALSE

\* main, from its receive loop on
main ==
    /\ call.kind = "app"
    /\ CASE call.m = "loop" ->
              AppStep([call EXCEPT !.m = IF call.running THEN "lock"
                                                         ELSE "join"])
         [] call.m = "lock" ->
              \* pthread_mutex_lock; pthread_cond_wait releases the mutex
              \* and waits
              /\ call.mtx = "none"
              /\ AppStep([call EXCEPT !.m = "cond_wait"])
         [] call.m = "cond_wait" ->
              \* a spurious wakeup, which POSIX allows
              AppStep([call EXCEPT !.m = "relock"])
         [] call.m = "relock" ->
              \* pthread_cond_wait takes the mutex again before it returns
              /\ call.mtx = "none"
              /\ AppStep([call EXCEPT !.mtx = "main", !.m = "recv"])
         [] call.m = "recv" ->
              \* mq_receive blocks while the queue is empty;
              \* pthread_mutex_unlock
              /\ call.mq > 0
              /\ AppStep([call EXCEPT !.mq = call.mq - 1, !.mtx = "none",
                                      !.m = "loop"])
         [] call.m = "join" ->
              \* pthread_join of both threads, cleanup, return 0
              /\ call.f = "ret"
              /\ call.t = "ret"
              /\ AppStep([call EXCEPT !.m = "exit"])
         [] OTHER -> FALSE

(***************************************************************************)
(* The two sample-count formulas of the work handlers, on the same         *)
(* pointer values.                                                         *)
(***************************************************************************)
CountCalls ==
    {[kind |-> "count", st |-> "pending", wp |-> w, rp |-> r, a |-> 0,
      b |-> 0] : w \in 0 .. 31, r \in 0 .. 31}

CountBoth ==
    /\ call.kind = "count"
    /\ call.st = "pending"
    /\ call' = [call EXCEPT !.st = "done",
                            !.a = FifoCount(call.wp, call.rp),
                            !.b = FifoCountBasic(call.wp, call.rp)]
    /\ UNCHANGED mailbox
    /\ UnitFrame

(***************************************************************************)
(* max30102_init_sensor run on its own.  failat is the register write the  *)
(* transport fails (0: none) and x what i2c_transfer returns for it.       *)
(***************************************************************************)
MAX30102_REG_LED_PULSE_1 == 12
MAX30102_REG_LED_PULSE_2 == 13

\* the register writes of max30102_init_sensor with the first two of them
\* exchanged
InitWritesMut ==
    << <<MAX30102_REG_FIFO_WRITE_POINTER, 0>>,
       <<MAX30102_REG_MODE_CONFIG, 64>>,
       <<MAX30102_REG_FIFO_READ_POINTER, 0>>,
       <<MAX30102_REG_OVERFLOW_COUNTER, 0>>,
       <<MAX30102_REG_FIFO_CONFIG, 128>>,
       <<MAX30102_REG_MODE_CONFIG, 3>>,
       <<MAX30102_REG_SPO2_CONFIG, 71>>,
       <<MAX30102_REG_LED_PULSE_1, 31>>,
       <<MAX30102_REG_LED_PULSE_2, 31>>,
       <<MAX30102_REG_MULTI_LED_MODE_1, 1>>,
       <<MAX30102_REG_MULTI_LED_MODE_2, 2>>,
       <<MAX30102_REG_INTERRUPT_ENABLE_1, 192>> >>
\* the register writes of max30102_init_sensor, as <<register, value>>, in
\* program order
InitWrites ==
    << <<MAX30102_REG_MODE_CONFIG, 64>>,
       <<MAX30102_REG_FIFO_WRITE_POINTER, 0>>,
       <<MAX30102_REG_FIFO_READ_POINTER, 0>>,
       <<MAX30102_REG_OVERFLOW_COUNTER, 0>>,
       <<MAX30102_REG_FIFO_CONFIG, 128>>,
       <<MAX30102_REG_MODE_CONFIG, 3>>,
       <<MAX30102_REG_SPO2_CONFIG, 71>>,
       <<MAX30102_REG_LED_PULSE_1, 31>>,
       <<MAX30102_REG_LED_PULSE_2, 31>>,
       <<MAX30102_REG_MULTI_LED_MODE_1, 1>>,
       <<MAX30102_REG_MULTI_LED_MODE_2, 2>>,
       <<MAX30102_REG_INTERRUPT_ENABLE_1, 192>> >>

InitCalls ==
    {[kind |-> "init", st |-> "pending", gpio |-> g, failat |-> k, x |-> x,
      log |-> <<>>, ret |-> "OK"] :
        g \in BOOLEAN, k \in 0 .. Len(InitWrites), x \in XferVals \ {1}}

\* the registers after the acknowledged writes ws; the reset bit of the
\* mode register puts every register back to 0
RECURSIVE ApplyWrites(_, _)
ApplyWrites(r, ws) ==
    IF ws = <<>> THEN r
    ELSE LET w == Head(ws)
             r1 == IF w = <<MAX30102_REG_MODE_CONFIG, 64>>
                   THEN [q \in DOMAIN r |-> 0]
                   ELSE IF w[1] \in DOMAIN r THEN [r EXCEPT ![w[1]] = w[2]]
                   ELSE r
         IN  ApplyWrites(r1, Tail(ws))

\* what the callers make of the return value: max30102_probe and
\* max30102_resume of max30102_core.c test ret < 0
InitFailed(r) == r \notin {"OK", "1"}

max30102_init_sensor ==
    /\ call.kind = "init"
    /\ call.st = "pending"
    /\ LET k == call.failat
           pulse == IF call.gpio THEN <<"reset_gpio">> ELSE <<>>
           issued == IF k = 0 THEN InitWrites ELSE SubSeq(InitWrites, 1, k)
           acked == IF k = 0 THEN InitWrites
                    ELSE SubSeq(InitWrites, 1, k - 1)
       IN  /\ regs' = ApplyWrites(regs, acked)
           /\ call' = [call EXCEPT
                         !.st = "done",
                         !.log = pulse \o issued,
                         !.ret = IF k = 0 THEN "OK"
                                 \* the two LED pulse writes are joined by
                                 \* || : ret gets the truth value, 1
                                 ELSE IF k \in {8, 9} THEN "1"
                                 ELSE WriteRegRet(1, call.x)]
    /\ UNCHANGED <<lock, mailbox, wqvars, workervars, procvars, buildvars,
                   cmd, ncmd, histvars>>

(***************************************************************************)
(* max30102_set_slot run on its own, on arbitrary contents m1 and m2 of    *)
(* the two slot registers: the one of max30102_config.c and the one of the *)
(* basic driver.                                                           *)
(***************************************************************************)
SlotCalls ==
    {[kind |-> "slot", st |-> "pending", ver |-> v, slot |-> sl, led |-> l,
      m1 |-> a, m2 |-> b, xr |-> xr, g |-> g, xw |-> xw, sret |-> "OK"] :
        v \in {"config", "basic"}, sl \in 1 .. 4, l \in 0 .. 3,
        a \in {0, 33, 90, 255}, b \in {0, 255}, xr \in XferVals,
        g \in GarbageVals, xw \in {1, -121}}

\* max30102_set_slot of the basic driver
max30102_set_slot_basic(r, slot, led, xw) ==
    IF slot < 1 \/ slot > 4 \/ led > 2 THEN Rejected(r)
    ELSE WriteByte(r, SlotReg(slot), led, xw)

SetSlot ==
    /\ call.kind = "slot"
    /\ call.st = "pending"
    /\ LET r0 == [regs EXCEPT ![MAX30102_REG_MULTI_LED_MODE_1] = call.m1,
                              ![MAX30102_REG_MULTI_LED_MODE_2] = call.m2]
           o == IF call.ver = "basic"
                THEN max30102_set_slot_basic(r0, call.slot, call.led, call.xw)
                ELSE max30102_set_slot(r0, call.slot, call.led, call.xr,
                                       call.g, call.xw)
       IN  /\ regs' = o.regs
           /\ call' = [call EXCEPT !.st = "done", !.sret = o.sret]
    /\ UNCHANGED <<lock, mailbox, wqvars, workervars, procvars, buildvars,
                   cmd, ncmd, histvars>>

(***************************************************************************)
(* max30102_set_interrupt run on its own, on arbitrary contents e1 and e2  *)
(* of the two interrupt enable registers; a1 and a2 are their contents     *)
(* afterwards, writes the number of register writes put on the bus.        *)
(***************************************************************************)
MAX30102_REG_INTERRUPT_ENABLE_2 == 3
MAX30102_INT_PPG_RDY == 6
MAX30102_INT_ALC_OVF == 5
MAX30102_INT_PWR_RDY == 0

IntrCalls ==
    {[kind |-> "intr", st |-> "pending", interrupt |-> i, enable |-> en,
      e1 |-> a, e2 |-> b, xr |-> xr, xw |-> xw, sret |-> "OK", a1 |-> a,
      a2 |-> b, writes |-> 0] :
        i \in (0 .. 8) \cup {255}, en \in BOOLEAN, a \in {0, 192, 255},
        b \in {0, 2, 255}, xr \in XferVals, xw \in {1, -121}}

\* a setter that keeps every interrupt in enable register 1
IntrRegMut(interrupt) == MAX30102_REG_INTERRUPT_ENABLE_1
\* reg = (interrupt == MAX30102_INT_DIE_TEMP_RDY) ? ..._ENABLE_2 : ..._ENABLE_1
IntrReg(interrupt) ==
    IF interrupt = MAX30102_INT_DIE_TEMP_RDY
    THEN MAX30102_REG_INTERRUPT_ENABLE_2
    ELSE MAX30102_REG_INTERRUPT_ENABLE_1

max30102_set_interrupt ==
    /\ call.kind = "intr"
    /\ call.st = "pending"
    /\ LET interrupt == call.interrupt
           reg == IntrReg(interrupt)
           mask == U8(Shl(1, interrupt))
           current == IF reg = MAX30102_REG_INTERRUPT_ENABLE_1 THEN call.e1
                      ELSE call.e2
           value == IF call.enable THEN BitOr(current, mask)
                    ELSE BitAnd(current, 255 - mask)
           done(sret, writes, v) ==
               [call EXCEPT !.st = "done", !.sret = sret, !.writes = writes,
                   !.a1 = IF v \in 0 .. 255
                             /\ reg = MAX30102_REG_INTERRUPT_ENABLE_1
                          THEN v ELSE call.e1,
                   !.a2 = IF v \in 0 .. 255
                             /\ reg = MAX30102_REG_INTERRUPT_ENABLE_2
                          THEN v ELSE call.e2]
       IN  call' =
             IF /\ interrupt > MAX30102_INT_DIE_TEMP_RDY
                /\ interrupt # MAX30102_INT_FIFO_FULL
                /\ interrupt # MAX30102_INT_PPG_RDY
                /\ interrupt # MAX30102_INT_ALC_OVF
                /\ interrupt # MAX30102_INT_PWR_RDY
             THEN done("EINVAL", 0, -1)
             ELSE IF ReadRegRet(1, call.xr) # "OK"
             THEN done(ReadRegRet(1, call.xr), 0, -1)
             ELSE IF WriteRegRet(1, call.xw) # "OK"
             THEN done(WriteRegRet(1, call.xw), 1, -1)
             ELSE done("OK", 1, value)
    /\ UNCHANGED mailbox
    /\ UnitFrame

(***************************************************************************)
(* The two clear-on-read interrupt status registers and their readers, on  *)
(* a bus whose transfers succeed.  a_full is bit A_FULL of status register *)
(* 1 and rdy bit DIE_TEMP_RDY of status register 2, as the device holds    *)
(* them; raised counts the times the device set A_FULL and seen the work   *)
(* handler runs that read it set.  One temperature request runs, through   *)
(* the ioctl (under data->lock) or through temperature_show (no lock):     *)
(* polls is the number of status reads it has made, rdy_at the value of    *)
(* polls when the conversion completed, thief the reader other than the    *)
(* request that read rdy set while the request was polling.                *)
(***************************************************************************)
MaxIrqs == 2

StatCalls ==
    {[kind |-> "stat", via |-> via, a_full |-> FALSE, rdy |-> FALSE,
      raised |-> 0, seen |-> 0, work |-> FALSE, shown |-> FALSE,
      t |-> "idle", polls |-> 0, conv |-> "none", rdy_at |-> -1,
      thief |-> "none", tret |-> "OK"] : via \in {"ioctl", "sysfs"}}

\* what a read of both status registers by the context who leaves behind
StatusRead(who) ==
    [call EXCEPT !.a_full = FALSE, !.rdy = FALSE,
        !.thief = IF call.rdy /\ call.t = "polling" THEN who ELSE call.thief]

\* the device sets A_FULL and asserts its interrupt line:
\* max30102_irq_handler queues the work
DeviceFifoFull ==
    /\ call.kind = "stat"
    /\ ~call.a_full
    /\ call.raised < MaxIrqs
    /\ call' = [call EXCEPT !.a_full = TRUE, !.raised = call.raised + 1,
                             !.work = TRUE]
    /\ UNCHANGED mailbox
    /\ UnitFrame

\* the device finishes the temperature conversion and sets DIE_TEMP_RDY
DeviceTempReady ==
    /\ call.kind = "stat"
    /\ call.conv = "running"
    /\ call' = [call EXCEPT !.rdy = TRUE, !.conv = "complete",
                             !.rdy_at = call.polls]
    /\ UNCHANGED mailbox
    /\ UnitFrame

\* max30102_work_handler: mutex_lock, the read of both status registers,
\* the test of the FIFO-full bit
WorkStatusRead ==
    /\ call.kind = "stat"
    /\ call.work
    /\ MutexFree(Worker)
    /\ call' = [StatusRead("work") EXCEPT !.work = FALSE,
                    !.seen = IF call.a_full THEN call.seen + 1 ELSE call.seen]
    /\ UNCHANGED mailbox
    /\ UnitFrame

\* status_show: reads both status registers, no lock
status_show ==
    /\ call.kind = "stat"
    /\ call' = [StatusRead("show") EXCEPT !.shown = TRUE]
    /\ UNCHANGED mailbox
    /\ UnitFrame

\* max30102_read_temperature, a step at a time: the write that starts the
\* conversion, then one status read per step until the bit is seen or the
\* budget is spent
max30102_read_temperature ==
    /\ call.kind = "stat"
    /\ IF call.t = "idle"
       THEN /\ call.via = "ioctl" => MutexFree(Caller)
            /\ lock' = IF call.via = "ioctl" THEN Caller ELSE lock
            /\ call' = [call EXCEPT !.t = "polling", !.conv = "running"]
       ELSE /\ call.t = "polling"
            /\ LET timeout == TEMP_POLL_BUDGET - (call.polls + 1)
                   status == IF call.rdy THEN Shl(1, MAX30102_INT_DIE_TEMP_RDY)
                             ELSE 0
                   c == [call EXCEPT !.rdy = FALSE, !.polls = call.polls + 1]
               IN  IF ~TempReady(status) /\ timeout > 0
                   THEN /\ call' = c
                        /\ UNCHANGED lock
                   ELSE /\ call' = [c EXCEPT !.t = "done",
                                       !.tret = IF TempTimedOut(timeout)
                                                THEN "ETIMEDOUT" ELSE "OK"]
                        /\ lock' = IF call.via = "ioctl" THEN NoOwner ELSE lock
    /\ UNCHANGED <<mailbox, wqvars, workervars, procvars, buildvars, cmdvars,
                   histvars>>

UnitCalls ==
    StatCalls \cup IntrCalls \cup InitCalls \cup SlotCalls \cup CountCalls \cup RegCalls \cup CodecCalls \cup TempCalls \cup DrainCalls \cup ReadyCalls
        \cup AppCalls

InitUnit == Probed /\ call \in UnitCalls

NextUnit ==
    \/ RegAccess
    \/ CodecRoundTrip
    \/ TempStart
    \/ TempPoll
    \/ TempReadInt
    \/ TempReadFrac
    \/ WorkDrain
    \/ call.kind = "ready" /\ MaxOpen(Caller)
    \/ PollQuery
    \/ DumpRegisters
    \/ Asked /\ ReadNonblock(Caller)
    \/ Asked /\ \E k \in LockedKinds : LockedCall(Caller, k)
    \/ Asked /\ RfCheck(Caller)
    \/ Asked /\ RfLock(Caller)
    \/ Asked /\ RfRed(Caller)
    \/ Asked /\ RfIr(Caller)
    \/ Asked /\ RfUnlock(Caller)
    \/ Asked /\ IoUnlock(Caller)
    \/ signal_handler
    \/ fifo_thread
    \/ temp_thread
    \/ main
    \/ CountBoth
    \/ max30102_init_sensor
    \/ SetSlot
    \/ max30102_set_interrupt
    \/ DeviceFifoFull
    \/ DeviceTempReady
    \/ WorkStatusRead
    \/ status_show
    \/ max30102_read_temperature

SpecUnit == InitUnit /\ [][NextUnit]_vars

(***************************************************************************)
(* Properties of the units                                                 *)
(***************************************************************************)
RegDone == call.kind \in RegFns /\ call.st = "done"

\* the number of messages the transfer of fn must complete
XferMsgs(fn) == IF fn = "write_reg" THEN 1 ELSE 2

\* C12: a register read or write whose length exceeds 32 returns the
\* parameter error without any call to the transport, and a length of 0 to
\* 32 reaches the transport.
C12_LenChecked ==
    RegDone =>
        /\ call.len > 32 => (call.ret = "EINVAL" /\ call.xfers = 0)
        /\ call.len <= 32 => call.xfers = 1

C12_Witness ==
    /\ RegDone
    /\ call.kind = "read_reg"
    /\ call.len = 33
    /\ call.ret = "EINVAL"
    /\ call.xfers = 0

\* C13: a register write succeeds only when the transport reports exactly 1
\* completed message and a register read only when it reports exactly 2;
\* any other outcome is an error: the transport's own when it is negative,
\* the generic I/O error when the count is short.
C13_ExactCount ==
    (RegDone /\ call.len <= 32) =>
        /\ call.ret = "OK" <=> call.xs[1] = XferMsgs(call.kind)
        /\ (call.ret # "OK" /\ call.xs[1] < 0) => call.ret = "EREMOTEIO"
        /\ (call.ret # "OK" /\ call.xs[1] >= 0) => call.ret = "EIO"

C13_Witness ==
    /\ RegDone
    /\ call.kind = "write_reg"
    /\ call.len = 1
    /\ call.xs[1] = 2
    /\ call.ret = "EIO"

\* C14: a register access whose first transfer fails and whose re-issued
\* transfer would succeed returns success.
C14_RetrySucceeds ==
    (/\ RegDone
     /\ call.len <= 32
     /\ call.xs[1] # XferMsgs(call.kind)
     /\ call.xs[2] = XferMsgs(call.kind)) => call.ret = "OK"

\* C15: after any drain, whatever bytes the FIFO returned, data_len is at
\* most 32 and every stored Red and IR sample below data_len is below 2^18.
C15_SamplesInRange ==
    call.kind = "drain" =>
        /\ data_len <= 32
        /\ \A i \in Idx :
             i < data_len =>
                 (red_data[i] < Pow2(18) /\ ir_data[i] < Pow2(18))

\* C16: a drain of count samples, count in 1..32, writes only the entries
\* 0..count-1 of the two arrays: the entries count..31 keep their contents.
C16_TailUntouched ==
    [][(/\ call.kind = "drain"
        /\ call'.n = call.n + 1
        /\ call'.count \in 1 .. 32) =>
           \A i \in Idx :
               i >= call'.count =>
                   (red_data'[i] = red_data[i] /\ ir_data'[i] = ir_data[i])]_vars

C16_Witness ==
    /\ call.kind = "drain"
    /\ call.n = 2
    /\ call.ok
    /\ call.count = 1
    /\ data_len = 1
    /\ red_data[0] = 0
    /\ red_data[1] # 0

PollTemp == call.kind = "temp" /\ call.ver = "poll"

C19_ReadySucceeds ==
    (PollTemp /\ call.st = "done" /\ call.busok) =>
        /\ call.first \in 1 .. 10 => (call.ret = "OK" /\ call.has_val)
        /\ call.ret = "ETIMEDOUT" => call.first = 0

\* C20: the temperature read back is the signed 8-bit integer register
\* times 16 plus the fraction register, in sixteenths of a degree: 25 and 1
\* give 25.0625, 0xFF and 8 give -0.5.
C20_SignedSixteenths ==
    (call.kind = "temp" /\ call.st = "done" /\ call.has_val) =>
        call.val = (IF call.i >= 128 THEN call.i - 256 ELSE call.i) * 16
                       + call.f

\* the call issued after the poll has run as far as it can: it returned,
\* or it waits in max30102_read_fifo for a mutex nobody will release
RanOut(kind) ==
    /\ Asked
    /\ op[Caller].kind = kind
    /\ \/ pc[Caller] = "done"
       \/ pc[Caller] = "rf_lock" /\ ~MutexFree(Caller)

\* C21: the poll reports readable exactly when a READ_FIFO issued right
\* after it (bus and user memory working) returns a Sample Set; the poll changes nothing.
C21_PollMatchesReadFifo ==
    (RanOut("ioctl") /\ ret[Caller] \in {"OK", "ENODATA"}) =>
        (call.revents = "POLLIN" <=>
            (pc[Caller] = "done" /\ ret[Caller] = "OK"))

\* C22: a FIFO dump or register dump run while a Sample Set is available
\* returns with the mailbox as it was and the device lock free, so that
\* the next READ_FIFO can take the set.
C22_DumpReadOnly ==
    ((RanOut("dump") \/ RanOut("regdump")) /\ call.full) =>
        /\ pc[Caller] = "done"
        /\ lock = NoOwner
        /\ fifo_full

\* C23: once the signal has cleared running and the FIFO and temperature
\* threads have stopped, the main thread is not left inside its condition
\* wait or its receive with an empty queue: it leaves the loop, joins the
\* threads and the process ends.
C23_MainNotStranded ==
    (call.kind = "app" /\ ~call.running /\ call.f = "ret" /\ call.t = "ret")
        => ~(call.m \in {"cond_wait", "relock", "recv"} /\ call.mq = 0)

\* C24: when the FIFO-full bit is set, the transport works and the
\* pointers give a count of 1 to 31, the work handler reads count * 6 bytes
\* in one burst and publishes a Sample Set of that length, the full flag
\* set.
C24_CountPublished ==
    (/\ call.kind = "drain"
     /\ call.ver = "part_003"
     /\ call.why \in {"data", "ok"}
     /\ call.x = 2
     /\ call.count \in 1 .. 31) =>
        (call.ok /\ data_len = call.count /\ fifo_full)

\* C25: for all pointer values in 0..31 the formulas (wp - rp + 32) % 32
\* and (wp - rp) & 0x1F give the same count, which is (wp - rp) mod 32 and
\* lies in 0..31.
C25_CountsAgree ==
    (call.kind = "count" /\ call.st = "done") =>
        /\ call.a = call.b
        /\ call.a = (call.wp - call.rp) % 32
        /\ call.a \in 0 .. 31

C25_Witness ==
    /\ call.kind = "count"
    /\ call.st = "done"
    /\ call.wp = 0
    /\ call.rp = 31
    /\ call.a = 1
    /\ call.b = 1

InitDone == call.kind = "init" /\ call.st = "done"

C28_InitFailFast ==
    (InitDone /\ call.failat # 0) =>
        /\ Len(call.log) = call.failat + (IF call.gpio THEN 1 ELSE 0)
        /\ call.ret = WriteRegRet(1, call.x)
        /\ InitFailed(call.ret)

\* C29: after a successful initialize the two slot registers hold what
\* set_slot(1, Red) followed by set_slot(2, IR) leaves in cleared slot
\* registers.
C29_InitSlotsAsSetSlot ==
    (InitDone /\ call.ret = "OK") =>
        LET r0 == [regs EXCEPT ![MAX30102_REG_MULTI_LED_MODE_1] = 0,
                               ![MAX30102_REG_MULTI_LED_MODE_2] = 0]
            r1 == max30102_set_slot(r0, 1, 1, 2, 0, 1).regs
            r2 == max30102_set_slot(r1, 2, 2, 2, 0, 1).regs
        IN  /\ regs[MAX30102_REG_MULTI_LED_MODE_1] =
                   r2[MAX30102_REG_MULTI_LED_MODE_1]
            /\ regs[MAX30102_REG_MULTI_LED_MODE_2] =
                   r2[MAX30102_REG_MULTI_LED_MODE_2]

\* C30: after a successful set_slot(s, l), s in 1..4 and l a valid led,
\* whatever the slot registers held: the field of slot s holds l, the
\* other bits of that register are as before, the other slot register is
\* as before.
C30_SlotFieldOnly ==
    (call.kind = "slot" /\ call.st = "done" /\ call.sret = "OK") =>
        LET reg == SlotReg(call.slot)
            sh == SlotShift(call.slot)
            before == IF reg = MAX30102_REG_MULTI_LED_MODE_1 THEN call.m1
                      ELSE call.m2
            rest == 255 - Shl(7, sh)
        IN  /\ Shr(regs[reg], sh) % 8 = call.led
            /\ BitAnd(regs[reg], rest) = BitAnd(before, rest)
            /\ reg = MAX30102_REG_MULTI_LED_MODE_1 =>
                   regs[MAX30102_REG_MULTI_LED_MODE_2] = call.m2
            /\ reg = MAX30102_REG_MULTI_LED_MODE_2 =>
                   regs[MAX30102_REG_MULTI_LED_MODE_1] = call.m1

\* C31: when the read of set_slot's read-modify-write fails, set_slot
\* returns the bus error and writes nothing: both slot registers are as
\* before.
C31_SlotReadChecked ==
    (/\ call.kind = "slot"
     /\ call.st = "done"
     /\ call.ver = "config"
     /\ ReadRegRet(1, call.xr) # "OK") =>
        /\ call.sret = ReadRegRet(1, call.xr)
        /\ regs[MAX30102_REG_MULTI_LED_MODE_1] = call.m1
        /\ regs[MAX30102_REG_MULTI_LED_MODE_2] = call.m2

\* bit n of a register value
Bit(v, n) == Shr(v, n) % 2

\* C32: a successful set_interrupt(kind, enable) leaves the bit of that
\* kind, in enable register 2 for temperature-ready and in enable register
\* 1 otherwise, at the requested value and every other bit of both
\* registers as it was; with an invalid kind or a failed read it writes
\* nothing.
C32_IntrBitOnly ==
    (call.kind = "intr" /\ call.st = "done") =>
        LET i == call.interrupt
            second == (i = 1)
        IN  /\ call.sret = "OK" =>
                 /\ i \in {0, 1, 5, 6, 7}
                 /\ Bit(IF second THEN call.a2 ELSE call.a1, i) =
                        (IF call.enable THEN 1 ELSE 0)
                 /\ \A n \in 0 .. 7 :
                      /\ (second \/ n # i) => Bit(call.a1, n) = Bit(call.e1, n)
                      /\ (~second \/ n # i) => Bit(call.a2, n) = Bit(call.e2, n)
            /\ (i \notin {0, 1, 5, 6, 7} \/ call.xr # 2) =>
                 (call.writes = 0 /\ call.sret # "OK")
            /\ call.sret # "OK" => (call.a1 = call.e1 /\ call.a2 = call.e2)

C32_Witness ==
    /\ call.kind = "intr"
    /\ call.st = "done"
    /\ call.interrupt = 1
    /\ call.enable
    /\ call.e1 = 192
    /\ call.e2 = 0
    /\ call.sret = "OK"
    /\ call.a1 = 192
    /\ call.a2 = 2

\* C33: every bus transaction of a file operation and every write of the
\* mailbox happens while the context doing it holds the device lock.
C33_BusUnderLock ==
    [][/\ \A p \in Procs : nbus'[p] > nbus[p] => lock = p
       /\ mailbox' # mailbox => lock # NoOwner]_vars

\* C34: every FIFO-full bit the device raises is read set by a run of the
\* work handler: once no work is pending and the bit is clear, the handler
\* has seen as many as were raised.
C34_FullSeenByWork ==
    (call.kind = "stat" /\ ~call.work /\ ~call.a_full) =>
        call.seen = call.raised

\* C35: a temperature request whose conversion completed with polls to
\* spare does not time out after the work handler read the ready bit away.
C35_ReadyNotStolen ==
    (/\ call.kind = "stat"
     /\ call.t = "done"
     /\ call.rdy_at \in 0 .. (TEMP_POLL_BUDGET - 2)
     /\ call.thief = "work") =>
        call.tret = "OK"

\* C36: a run of the work handler that published has read the overflow
\* counter, and read it before the FIFO data it decoded.
C36_OverflowReadFirst ==
    (call.kind \in {"drain", "ready"} /\ call.ok) =>
        \E i \in 1 .. Len(call.rd) :
            /\ call.rd[i] = MAX30102_REG_OVERFLOW_COUNTER
            /\ \A j \in 1 .. i : call.rd[j] # MAX30102_REG_FIFO_DATA

\* C37: a read() that returns an error after the poll reported the
\* published set leaves the mailbox as it was: the set is still there for
\* the next read.
C37_FailedReadKeepsSet ==
    (/\ Asked
     /\ call.full
     /\ op[Caller].kind = "read"
     /\ pc[Caller] = "done"
     /\ ret[Caller] # "OK") =>
        fifo_full

\* C38: the arrays of a successful read depend on the last published set
\* only: beyond its len they are what a history made of that one publish
\* returns, the zeros of the allocation.
C38_ArraysOfLastPublish ==
    (/\ Asked
     /\ op[Caller].kind = "read"
     /\ pc[Caller] = "done"
     /\ ret[Caller] = "OK") =>
        \A i \in Idx :
            i >= out[Caller].len =>
                (out[Caller].red[i] = 0 /\ out[Caller].ir[i] = 0)

\* C39: when the work handler reaches its wake-up, the consumer wait queue
\* has been initialised: its head is linked.
C39_QueueInitBeforeWake ==
    wpc = "wake" => (wq_next[WqHead] # Null /\ wq_prev[WqHead] # Null)

\* C40: one publish reaches at most one of two concurrent consumers: with a
\* single set published, the two reads do not both return it.
C40_OneReceiver ==
    Len(pubs) = 1 =>
        ~(\A p \in Procs :
            pc[p] = "done" /\ op[p].kind = "read" /\ ret[p] = "OK")

====
